---------------------------- MODULE Spec2Model ----------------------------
(***************************************************************************)
(* Leaderboard backend of laciola.it.                                      *)
(*                                                                         *)
(* The repository holds two builds of the same service:                    *)
(*   "worker"  src/src/index.ts  Hono on Cloudflare Workers over D1; every *)
(*             statement is awaited, so requests interleave between        *)
(*             statements.                                                 *)
(*   "bun"     src/index.ts      Elysia over bun:sqlite; the statements    *)
(*             are synchronous, so a handler runs to completion.           *)
(* The schema of both is src/unnamed/part_000.                             *)
(*                                                                         *)
(* Strings are sequences of one-character strings, so that trim,          *)
(* toLowerCase and the name pattern are computed character by character.   *)
(* JavaScript numbers are records [ok, v]; ok = FALSE is NaN/undefined.    *)
(* Only integer scores are modelled (TLC has no fractions).                *)
(***************************************************************************)
EXTENDS Integers, Sequences, FiniteSets, TLC

VARIABLES
    build,            \* which of the two builds is running
    leaderboard,      \* table leaderboard: sequence of rows in rowid order
    player_activity,  \* table player_activity: sequence of rows in rowid order
    now,              \* Date.now()
    req,              \* the POST /api/submit-score handlers in flight
    started,          \* number of submissions received so far
    tie,              \* how the engine orders rows of equal score
    topResp,          \* last response of GET /api/leaderboard
    rankResp          \* last response of GET /api/rank/:name

vars == <<build, leaderboard, player_activity, now, req, started,
          tie, topResp, rankResp>>

-----------------------------------------------------------------------------
(* Bounds of the model *)

MaxReqs == 2
MaxPeriods == 1
MaxPlayers == 11

(* Program constants *)

MAX_SCORE == 3600
COOLDOWN_MS == 30000
DAY_MS == 86400000
DAILY_LIMIT == 50
TOP_LIMIT == 10
NAME_MIN == 3
NAME_MAX == 16

-----------------------------------------------------------------------------
(* Strings *)

UpperChars == <<"A", "B", "C", "D", "E", "F", "G", "H", "I", "J", "K", "L", "M",
                "N", "O", "P", "Q", "R", "S", "T", "U", "V", "W", "X", "Y", "Z">>
LowerChars == <<"a", "b", "c", "d", "e", "f", "g", "h", "i", "j", "k", "l", "m",
                "n", "o", "p", "q", "r", "s", "t", "u", "v", "w", "x", "y", "z">>
DigitChars == {"0", "1", "2", "3", "4", "5", "6", "7", "8", "9"}
SpaceChars == {" "}

Range(s) == {s[i] : i \in 1..Len(s)}

WordChars == Range(UpperChars) \cup Range(LowerChars) \cup DigitChars \cup {"_"}

toLowerCaseChar(c) ==
    IF \E k \in 1..Len(UpperChars) : UpperChars[k] = c
    THEN LowerChars[CHOOSE k \in 1..Len(UpperChars) : UpperChars[k] = c]
    ELSE c

toLowerCase(s) == [i \in 1..Len(s) |-> toLowerCaseChar(s[i])]

RECURSIVE trimStart(_)
trimStart(s) ==
    IF s # <<>> /\ Head(s) \in SpaceChars THEN trimStart(Tail(s)) ELSE s

RECURSIVE trimEnd(_)
trimEnd(s) ==
    IF s # <<>> /\ s[Len(s)] \in SpaceChars
    THEN trimEnd(SubSeq(s, 1, Len(s) - 1))
    ELSE s

trim(s) == trimEnd(trimStart(s))

isValidName(name) ==
    /\ Len(name) >= NAME_MIN
    /\ Len(name) <= NAME_MAX
    /\ \A i \in 1..Len(name) : name[i] \in WordChars

-----------------------------------------------------------------------------
(* JavaScript numbers *)

Num(v) == [ok |-> TRUE, v |-> v]
NaN == [ok |-> FALSE, v |-> 0]

JsSub(a, b) == IF a.ok /\ b.ok THEN Num(a.v - b.v) ELSE NaN
JsLt(a, b) == a.ok /\ b.ok /\ a.v < b.v
JsGe(a, b) == a.ok /\ b.ok /\ a.v >= b.v

-----------------------------------------------------------------------------
(* The store *)

Builds == {"worker", "bun"}

\* SelectByName without its WHERE clause.
SelectAnyName(table, key) == table

\* Rows of a table whose name column equals key, in rowid order.
RECURSIVE SelectByName(_, _)
SelectByName(table, key) ==
    IF table = <<>> THEN <<>>
    ELSE IF Head(table).name = key
         THEN <<Head(table)>> \o SelectByName(Tail(table), key)
         ELSE SelectByName(Tail(table), key)

\* name TEXT NOT NULL UNIQUE: an INSERT of a name already present fails.
UniqueViolation(table, key) == \E i \in 1..Len(table) : table[i].name = key

\* InsertRow without the UNIQUE constraint on name.
InsertRowNotUnique(table, row) == Append(table, row)

InsertRow(table, row) ==
    IF UniqueViolation(table, row.name) THEN table ELSE Append(table, row)

\* The object the handler gets for a player_activity row.  The worker build
\* aliases the columns to lastSubmission, submissionCount and firstSeen; the
\* bun build selects last_submission, submission_count and first_seen
\* unaliased, so the three properties the handler reads are undefined.
ActivityObject(row) ==
    IF build = "worker"
    THEN [lastSubmission  |-> Num(row.last_submission),
          submissionCount |-> Num(row.submission_count),
          firstSeen       |-> Num(row.first_seen)]
    ELSE [lastSubmission  |-> NaN,
          submissionCount |-> NaN,
          firstSeen       |-> NaN]

\* NewActivityRow that always generates the session id.
NewActivityRowIgnoresHint(key, nowv, sessionId, generated) ==
    [name |-> key, last_submission |-> nowv, submission_count |-> 1,
     first_seen |-> nowv, session_id |-> generated]

\* The row checkRateLimit inserts for a new player: VALUES (playerKey, now, 1,
\* now, sessionId || generateSessionId()).
NewActivityRow(key, nowv, sessionId, generated) ==
    [name |-> key, last_submission |-> nowv, submission_count |-> 1,
     first_seen |-> nowv,
     session_id |-> IF sessionId # "" THEN sessionId ELSE generated]

\* UpdateActivity that starts the count afresh.
UpdateActivityResetsCount(table, key, nowv) ==
    [i \in 1..Len(table) |->
        IF table[i].name = key
        THEN [table[i] EXCEPT !.last_submission = nowv, !.submission_count = 1]
        ELSE table[i]]

\* UpdateActivity whose WHERE clause matches no row.
UpdateActivityNoRows(table, key, nowv) == table

UpdateActivity(table, key, nowv) ==
    [i \in 1..Len(table) |->
        IF table[i].name = key
        THEN [table[i] EXCEPT !.last_submission = nowv,
                              !.submission_count = @ + 1]
        ELSE table[i]]

\* UpdateScore without its WHERE clause.
UpdateScoreEveryRow(table, key, score, timestamp) ==
    [i \in 1..Len(table) |->
        [table[i] EXCEPT !.score = score, !.timestamp = timestamp]]

\* UpdateScore that only ever raises the stored score.
UpdateScoreIfHigher(table, key, score, timestamp) ==
    [i \in 1..Len(table) |->
        IF table[i].name = key /\ table[i].score < score
        THEN [table[i] EXCEPT !.score = score, !.timestamp = timestamp]
        ELSE table[i]]

\* UpdateScore that sets the score only.
UpdateScoreKeepsTimestamp(table, key, score, timestamp) ==
    [i \in 1..Len(table) |->
        IF table[i].name = key THEN [table[i] EXCEPT !.score = score]
        ELSE table[i]]

UpdateScore(table, key, score, timestamp) ==
    [i \in 1..Len(table) |->
        IF table[i].name = key
        THEN [table[i] EXCEPT !.score = score, !.timestamp = timestamp]
        ELSE table[i]]

-----------------------------------------------------------------------------
(* Validation and the abuse guard *)

isValidScore(score) ==
    IF build = "worker"
    THEN score > 0 /\ score <= MAX_SCORE
    ELSE score > 0

\* TooSoon that still denies at exactly 30000 ms.
TooSoonInclusive(nowv, activity) ==
    LET elapsed == JsSub(Num(nowv), activity.lastSubmission)
    IN  JsLt(elapsed, Num(COOLDOWN_MS)) \/ elapsed = Num(COOLDOWN_MS)

TooSoon(nowv, activity) ==
    JsLt(JsSub(Num(nowv), activity.lastSubmission), Num(COOLDOWN_MS))

\* daysSinceFirst = (now - firstSeen) / 86400000 is below 1 exactly when the
\* difference is below 86400000.
OverQuota(nowv, activity) ==
    /\ JsLt(JsSub(Num(nowv), activity.firstSeen), Num(DAY_MS))
    /\ JsGe(activity.submissionCount, Num(DAILY_LIMIT))

\* RateLimitBranch that lets a new player through without the INSERT.
RateLimitBranchNoInsert(rows, nowv) ==
    IF rows = <<>> THEN "rl_update"
    ELSE IF TooSoon(nowv, ActivityObject(rows[1])) THEN "cooldown"
    ELSE IF OverQuota(nowv, ActivityObject(rows[1])) THEN "quota"
    ELSE "rl_update"

\* What checkRateLimit does once its SELECT has returned rows.
RateLimitBranch(rows, nowv) ==
    IF rows = <<>> THEN "rl_insert"
    ELSE IF TooSoon(nowv, ActivityObject(rows[1])) THEN "cooldown"
    ELSE IF OverQuota(nowv, ActivityObject(rows[1])) THEN "quota"
    ELSE "rl_update"

\* ProgressionValid that lets an equal score through.
ProgressionValidOrEqual(rows, newScore) ==
    ~(rows # <<>> /\ newScore < rows[1].score)

\* validateScoreProgression once its SELECT has returned rows.
ProgressionValid(rows, newScore) ==
    ~(rows # <<>> /\ newScore <= rows[1].score)

-----------------------------------------------------------------------------
(* Requests and their inputs *)

\* Handler instances; a new request takes the lowest free one.
Reqs == {1, 2}

abc == <<"a", "b", "c">>
ABC == <<"A", "B", "C">>
bobPadded == <<" ", "b", "o", "b", " ">>
tooShort == <<"a", "b">>

RawNames == {abc, ABC, bobPadded, tooShort}
RawScores == {-1, 0, 2, MAX_SCORE, MAX_SCORE + 1}
SessionHints == {"", "s1"}
GeneratedIds == {"g1"}

\* wrote records that a statement of the handler has changed the store.
Idle ==
    [pc |-> "idle", name |-> <<>>, score |-> 0, sid |-> "", now |-> 0,
     best |-> 0, ts |-> 0, wrote |-> FALSE, result |-> "none"]

InFlight(r) == req[r].pc \notin {"idle", "done"}

\* The handler's playerName and the key it binds to every statement.
PlayerName(r) == trim(req[r].name)
PlayerKey(r) == toLowerCase(PlayerName(r))

\* The worker build yields at every awaited statement; the bun build runs a
\* handler to completion before the next one starts.
MayRun(r) == build = "worker" \/ \A q \in Reqs \ {r} : ~InFlight(q)

Finish(r, result) ==
    req' = [req EXCEPT ![r].pc = "done", ![r].result = result, ![r].sid = "",
                       ![r].now = 0, ![r].ts = 0]

-----------------------------------------------------------------------------
(* State after construction, or after an earlier run of the service *)

\* The service has been up for 49 cooldown periods.  Either nobody has played
\* yet, or one player has submitted every 30 s from time 0 until one period
\* ago, 49 times, the first one accepted with score 1 and the others rejected
\* for not beating it, or that player has submitted twice, at time 0 and
\* again 1 ms ago.
StartTime == (DAILY_LIMIT - 1) * COOLDOWN_MS

VeteranActivity ==
    [name |-> abc, last_submission |-> StartTime - COOLDOWN_MS,
     submission_count |-> DAILY_LIMIT - 1, first_seen |-> 0, session_id |-> "s1"]
VeteranScore == [name |-> abc, score |-> 1, timestamp |-> 0]

RecentActivity ==
    [name |-> abc, last_submission |-> StartTime - 1, submission_count |-> 2,
     first_seen |-> 0, session_id |-> "s1"]

Init ==
    /\ build \in Builds
    /\ \/ /\ leaderboard = <<>>
          /\ player_activity = <<>>
       \/ /\ leaderboard = <<VeteranScore>>
          /\ player_activity \in {<<VeteranActivity>>, <<RecentActivity>>}
    /\ now = StartTime
    /\ req = [r \in Reqs |-> Idle]
    /\ started = 0
    /\ tie = "rowid"
    /\ topResp = <<>>
    /\ rankResp = [name |-> <<>>, rank |-> [ok |-> FALSE, v |-> 0], totalPlayers |-> 0]

-----------------------------------------------------------------------------
(* POST /api/submit-score *)

\* The request arrives; name and score are validated and checkRateLimit
\* reads the clock and issues its SELECT.
Submit(r, name, score, sid) ==
    /\ ~InFlight(r)
    /\ \A q \in Reqs : q < r => InFlight(q)
    /\ MayRun(r)
    /\ started < MaxReqs
    /\ started' = started + 1
    /\ req' = [req EXCEPT ![r] =
                 IF name = <<>> \/ ~isValidName(trim(name))
                 THEN [Idle EXCEPT !.pc = "done", !.name = name, !.score = score,
                                   !.sid = sid, !.result = "invalidName"]
                 ELSE IF score = 0 \/ ~isValidScore(score)
                 THEN [Idle EXCEPT !.pc = "done", !.name = name, !.score = score,
                                   !.sid = sid, !.result = "invalidScore"]
                 ELSE [Idle EXCEPT !.pc = "rl_select", !.name = name,
                                   !.score = score, !.sid = sid, !.now = now]]
    /\ UNCHANGED <<build, leaderboard, player_activity, now, tie,
                   topResp, rankResp>>

\* checkRateLimit: the SELECT on player_activity returns and the cooldown
\* and quota gates are evaluated.
RateLimitSelect(r) ==
    /\ req[r].pc = "rl_select"
    /\ MayRun(r)
    /\ LET branch == RateLimitBranch(SelectByName(player_activity, PlayerKey(r)),
                                     req[r].now)
       IN  IF branch \in {"cooldown", "quota"}
           THEN Finish(r, branch)
           ELSE req' = [req EXCEPT ![r].pc = branch,
                                   ![r].sid = IF branch = "rl_insert" THEN @ ELSE ""]
    /\ UNCHANGED <<build, leaderboard, player_activity, now, started,
                   tie, topResp, rankResp>>

\* checkRateLimit: INSERT of the new player's activity row.
RateLimitInsert(r, generated) ==
    /\ req[r].pc = "rl_insert"
    /\ MayRun(r)
    /\ LET row == NewActivityRow(PlayerKey(r), req[r].now, req[r].sid, generated)
       IN  /\ player_activity' = InsertRow(player_activity, row)
           /\ IF UniqueViolation(player_activity, row.name)
              THEN Finish(r, "storeFault")
              ELSE req' = [req EXCEPT ![r].pc = "vp_select", ![r].sid = "",
                                      ![r].now = 0, ![r].wrote = TRUE]
    /\ UNCHANGED <<build, leaderboard, now, started, tie, topResp,
                   rankResp>>

\* checkRateLimit: UPDATE of last_submission and submission_count.
RateLimitUpdate(r) ==
    /\ req[r].pc = "rl_update"
    /\ MayRun(r)
    /\ player_activity' = UpdateActivity(player_activity, PlayerKey(r), req[r].now)
    /\ req' = [req EXCEPT ![r].pc = "vp_select", ![r].sid = "", ![r].now = 0,
                           ![r].wrote = TRUE]
    /\ UNCHANGED <<build, leaderboard, now, started, tie, topResp,
                   rankResp>>

\* validateScoreProgression: the SELECT of the stored score returns.
ProgressionSelect(r) ==
    /\ req[r].pc = "vp_select"
    /\ MayRun(r)
    /\ LET rows == SelectByName(leaderboard, PlayerKey(r))
           seen == IF rows = <<>> THEN 0 ELSE rows[1].score
       IN  IF ProgressionValid(rows, req[r].score)
           THEN req' = [req EXCEPT ![r].pc = "lb_select", ![r].best = seen]
           ELSE req' = [req EXCEPT ![r].pc = "done", ![r].best = seen,
                                   ![r].result = "progression"]
    /\ UNCHANGED <<build, leaderboard, player_activity, now, started,
                   tie, topResp, rankResp>>

\* The handler's own SELECT name FROM leaderboard returns, the clock is read
\* for the timestamp and the UPDATE or the INSERT is issued.
ExistsSelect(r) ==
    /\ req[r].pc = "lb_select"
    /\ MayRun(r)
    /\ req' = [req EXCEPT
                 ![r].pc = IF SelectByName(leaderboard, PlayerKey(r)) # <<>>
                           THEN "lb_update" ELSE "lb_insert",
                 ![r].ts = now]
    /\ UNCHANGED <<build, leaderboard, player_activity, now, started,
                   tie, topResp, rankResp>>

ScoreUpdate(r) ==
    /\ req[r].pc = "lb_update"
    /\ MayRun(r)
    /\ leaderboard' = UpdateScore(leaderboard, PlayerKey(r), req[r].score, req[r].ts)
    /\ Finish(r, "saved")
    /\ UNCHANGED <<build, player_activity, now, started, tie, topResp,
                   rankResp>>

ScoreInsert(r) ==
    /\ req[r].pc = "lb_insert"
    /\ MayRun(r)
    /\ LET row == [name |-> PlayerKey(r), score |-> req[r].score,
                   timestamp |-> req[r].ts]
       IN  /\ leaderboard' = InsertRow(leaderboard, row)
           /\ IF UniqueViolation(leaderboard, row.name)
              THEN Finish(r, "storeFault")
              ELSE Finish(r, "saved")
    /\ UNCHANGED <<build, player_activity, now, started, tie, topResp,
                   rankResp>>

-----------------------------------------------------------------------------
(* The clock *)

\* The instants at which the clock is observed: just before and at the end
\* of each cooldown period after the start, and around the end of the first
\* day.
Instants ==
    {StartTime + k * COOLDOWN_MS - 1 : k \in 1..MaxPeriods}
        \cup {StartTime + k * COOLDOWN_MS : k \in 1..MaxPeriods}
        \cup {DAY_MS - 1, DAY_MS}

\* The instants are at least 29999 ms apart: the clock reaches the next one
\* while a worker handler awaits the store, never within a synchronous bun
\* handler.
Tick(t) ==
    /\ t > now
    /\ build = "worker" \/ \A r \in Reqs : ~InFlight(r)
    /\ now' = t
    /\ UNCHANGED <<build, leaderboard, player_activity, req, started, tie,
                   topResp, rankResp>>

-----------------------------------------------------------------------------

Next ==
    \/ \E r \in Reqs, name \in RawNames, score \in RawScores, sid \in SessionHints :
          Submit(r, name, score, sid)
    \/ \E r \in Reqs : RateLimitSelect(r)
    \/ \E r \in Reqs, generated \in GeneratedIds : RateLimitInsert(r, generated)
    \/ \E r \in Reqs : RateLimitUpdate(r)
    \/ \E r \in Reqs : ProgressionSelect(r)
    \/ \E r \in Reqs : ExistsSelect(r)
    \/ \E r \in Reqs : ScoreUpdate(r)
    \/ \E r \in Reqs : ScoreInsert(r)
    \/ \E t \in Instants : Tick(t)

Spec == Init /\ [][Next]_vars

-----------------------------------------------------------------------------
(* GET /api/leaderboard and GET /api/rank/:name *)

TieOrders == {"rowid", "rowidDesc"}

Null == [ok |-> FALSE, v |-> 0]

\* ORDER BY score DESC leaves the order of equal scores to the engine; it is
\* the same for every query of one engine: by rowid, ascending or descending.
GoesBefore(row, other) ==
    \/ row.score > other.score
    \/ row.score = other.score /\ tie = "rowidDesc"

\* sorted, with row (of a higher rowid than all of sorted) put at its place.
RECURSIVE InsertSorted(_, _)
InsertSorted(row, sorted) ==
    IF sorted = <<>> THEN <<row>>
    ELSE IF GoesBefore(row, Head(sorted)) THEN <<row>> \o sorted
    ELSE <<Head(sorted)>> \o InsertSorted(row, Tail(sorted))

RECURSIVE OrderByScoreDesc(_)
OrderByScoreDesc(table) ==
    IF table = <<>> THEN <<>>
    ELSE InsertSorted(table[Len(table)],
                      OrderByScoreDesc(SubSeq(table, 1, Len(table) - 1)))

\* Limit that does not truncate.
LimitIgnored(rows, n) == rows

Limit(rows, n) == SubSeq(rows, 1, IF Len(rows) < n THEN Len(rows) ELSE n)

\* RankedRows with RANK() in place of ROW_NUMBER(): equal scores share a rank.
RankedRowsCompetition(table) ==
    LET sorted == OrderByScoreDesc(table)
    IN  [k \in 1..Len(sorted) |->
            [name |-> sorted[k].name,
             rank |-> 1 + Cardinality({j \in 1..Len(sorted) :
                                          sorted[j].score > sorted[k].score}),
             total_players |-> Len(sorted)]]

\* SELECT name, ROW_NUMBER() OVER (ORDER BY score DESC) as rank,
\*        COUNT(*) OVER() as total_players FROM leaderboard
RankedRows(table) ==
    LET sorted == OrderByScoreDesc(table)
    IN  [k \in 1..Len(sorted) |->
            [name |-> sorted[k].name, rank |-> k, total_players |-> Len(sorted)]]

\* The response of the rank handler for the row the query returned, if any.
RankResponse(name, rows) ==
    [name |-> name,
     rank |-> IF rows # <<>> THEN Num(rows[1].rank) ELSE Null,
     totalPlayers |-> IF rows # <<>> THEN rows[1].total_players ELSE 0]

GetLeaderboard ==
    /\ topResp' = <<Limit(OrderByScoreDesc(leaderboard), TOP_LIMIT)>>
    /\ UNCHANGED <<build, leaderboard, player_activity, now, req, started, tie,
                   rankResp>>

\* The rank handler: the path parameter is lower-cased, not trimmed.
RankOf(name) ==
    RankResponse(name, SelectByName(RankedRows(leaderboard), toLowerCase(name)))

GetRank(name) ==
    /\ rankResp' = RankOf(name)
    /\ UNCHANGED <<build, leaderboard, player_activity, now, req, started, tie,
                   topResp>>

\* Stores for the queries: n players, inserted in the order of their names,
\* each with the score a pattern gives to the i-th of them.
Player(i) == <<"p", "l", LowerChars[i]>>

ScorePatterns == {"flat", "rising", "falling", "pairs", "alternate"}

PatternScore(pattern, i) ==
    CASE pattern = "flat" -> 7
      [] pattern = "rising" -> i
      [] pattern = "falling" -> MAX_SCORE - i
      [] pattern = "pairs" -> (i + 1) \div 2
      [] pattern = "alternate" -> 1 + (i % 2)

QueryNames ==
    {Player(i) : i \in 1..MaxPlayers} \cup {<<"P", "L", "B">>, <<"n", "o", "b", "o", "d", "y">>}

InitQuery ==
    /\ build \in Builds
    /\ tie \in TieOrders
    /\ \E n \in 0..MaxPlayers, pattern \in ScorePatterns :
          /\ leaderboard = [i \in 1..n |->
                [name |-> Player(i), score |-> PatternScore(pattern, i),
                 timestamp |-> i]]
          /\ player_activity = [i \in 1..n |->
                [name |-> Player(i), last_submission |-> i,
                 submission_count |-> 1, first_seen |-> i, session_id |-> "s1"]]
    /\ now = StartTime
    /\ req = [r \in Reqs |-> Idle]
    /\ started = 0
    /\ topResp = <<>>
    /\ rankResp = RankResponse(<<>>, <<>>)

NextQuery ==
    \/ GetLeaderboard
    \/ \E name \in QueryNames : GetRank(name)

SpecQuery == InitQuery /\ [][NextQuery]_vars

-----------------------------------------------------------------------------
(* Callers that never overlap two submissions of one player *)

\* A request for a player arrives only when no other request for the same
\* case-folded name is being handled; requests for other players may overlap.
SubmitNoOverlap(r, name, score, sid) ==
    /\ started < MaxReqs
    /\ \A q \in Reqs \ {r} : InFlight(q) => PlayerKey(q) # toLowerCase(trim(name))
    /\ Submit(r, name, score, sid)

NextNoOverlap ==
    \/ \E r \in Reqs, name \in RawNames, score \in RawScores, sid \in SessionHints :
          SubmitNoOverlap(r, name, score, sid)
    \/ \E r \in Reqs : RateLimitSelect(r)
    \/ \E r \in Reqs, generated \in GeneratedIds : RateLimitInsert(r, generated)
    \/ \E r \in Reqs : RateLimitUpdate(r)
    \/ \E r \in Reqs : ProgressionSelect(r)
    \/ \E r \in Reqs : ExistsSelect(r)
    \/ \E r \in Reqs : ScoreUpdate(r)
    \/ \E r \in Reqs : ScoreInsert(r)
    \/ \E t \in Instants : Tick(t)

SpecNoOverlap == Init /\ [][NextNoOverlap]_vars

-----------------------------------------------------------------------------
(* Properties *)

ActivityRows(r) == SelectByName(player_activity, PlayerKey(r))
ScoreRows(r) == SelectByName(leaderboard, PlayerKey(r))

\* The step in which request r leaves the program point pc.
Leaves(r, pc) == req[r].pc = pc /\ req'[r].pc # pc

Finished(r, reason) == req[r].pc = "done" /\ req[r].result = reason

\* C1: a submission of a player who has an activity row, whose rate-limit
\* check runs less than 30000 ms after the row's last_submission, is rejected
\* with the cooldown reason.
C1_CooldownDenies ==
    [][\A r \in Reqs :
          (/\ Leaves(r, "rl_select")
           /\ ActivityRows(r) # <<>>
           /\ req[r].now - ActivityRows(r)[1].last_submission < COOLDOWN_MS)
          => (req'[r].pc = "done" /\ req'[r].result = "cooldown")]_vars

\* C1 in the worker build alone, where the columns are aliased.
C1_CooldownDeniesWorker ==
    [][build = "worker" =>
          \A r \in Reqs :
             (/\ Leaves(r, "rl_select")
              /\ ActivityRows(r) # <<>>
              /\ req[r].now - ActivityRows(r)[1].last_submission < COOLDOWN_MS)
             => (req'[r].pc = "done" /\ req'[r].result = "cooldown")]_vars

\* C2: a rate-limit check of an existing player that is past the cooldown is
\* denied with the quota reason exactly when fewer than 86400000 ms have
\* passed since first_seen and submission_count is at least 50.
C2_QuotaExactly ==
    [][\A r \in Reqs :
          (/\ Leaves(r, "rl_select")
           /\ ActivityRows(r) # <<>>
           /\ req[r].now - ActivityRows(r)[1].last_submission >= COOLDOWN_MS)
          => ((req'[r].pc = "done" /\ req'[r].result = "quota")
                <=> (/\ req[r].now - ActivityRows(r)[1].first_seen < DAY_MS
                     /\ ActivityRows(r)[1].submission_count >= DAILY_LIMIT))]_vars

\* C2 in the worker build alone.
C2_QuotaExactlyWorker ==
    [][build = "worker" =>
          \A r \in Reqs :
             (/\ Leaves(r, "rl_select")
              /\ ActivityRows(r) # <<>>
              /\ req[r].now - ActivityRows(r)[1].last_submission >= COOLDOWN_MS)
             => ((req'[r].pc = "done" /\ req'[r].result = "quota")
                   <=> (/\ req[r].now - ActivityRows(r)[1].first_seen < DAY_MS
                        /\ ActivityRows(r)[1].submission_count >= DAILY_LIMIT))]_vars

\* C3: when the stored score is read for a submission that passed the rate
\* limit and the new score does not exceed it (equal included), the
\* submission is rejected with a reason naming the stored score, and the
\* leaderboard is left as it is.
C3_ProgressionRejects ==
    [][\A r \in Reqs :
          (/\ Leaves(r, "vp_select")
           /\ ScoreRows(r) # <<>>
           /\ req[r].score <= ScoreRows(r)[1].score)
          => (/\ req'[r].pc = "done"
              /\ req'[r].result = "progression"
              /\ req'[r].best = ScoreRows(r)[1].score
              /\ leaderboard' = leaderboard)]_vars

\* A brand-new player's score was stored and the same score, submitted
\* again, has been rejected for not exceeding it.
C3_Witness ==
    \E r \in Reqs :
       /\ Finished(r, "progression")
       /\ PlayerKey(r) = <<"b", "o", "b">>
       /\ req[r].score = req[r].best
       /\ ScoreRows(r) # <<>>
       /\ ScoreRows(r)[1].score = req[r].score

\* C4: when submissions of one player never overlap, no stored score ever
\* decreases (rows keep their place and are never removed), and every UPDATE
\* of an existing row stores a score strictly above the one it replaces.
C4_ScoreMonotone ==
    [][/\ \A i \in 1..Len(leaderboard) :
             /\ i <= Len(leaderboard')
             /\ leaderboard'[i].name = leaderboard[i].name
             /\ leaderboard'[i].score >= leaderboard[i].score
       /\ \A r \in Reqs :
             Leaves(r, "lb_update")
             => (/\ ScoreRows(r) # <<>>
                 /\ req[r].score > ScoreRows(r)[1].score
                 /\ SelectByName(leaderboard', PlayerKey(r))[1].score = req[r].score)]_vars

\* An existing row has been updated: the submission read a stored score,
\* passed, and its score is the stored one now.
C4_Witness ==
    \E r \in Reqs :
       /\ Finished(r, "saved")
       /\ req[r].best > 0
       /\ ScoreRows(r) # <<>>
       /\ ScoreRows(r)[1].score = req[r].score

\* C5: the UPDATE of a handler that passed the progression check stores the
\* handler's score whatever the stored score has become: the handler's score
\* exceeds the score it read, not necessarily the one it overwrites.  With
\* two overlapping handlers that read the same score, the lower submitted
\* score can so end up stored after the higher one (C5_Witness).
C5_UpdateOverwrites ==
    [][\A r \in Reqs :
          Leaves(r, "lb_update")
          => (/\ req[r].score > req[r].best
              /\ SelectByName(leaderboard', PlayerKey(r))[1].score = req[r].score)]_vars

\* Two handlers of one existing player both passed the progression check
\* against the same stored score, both wrote, and the lower of the two
\* submitted scores is the stored one.
C5_Witness ==
    \E r1 \in Reqs, r2 \in Reqs :
       /\ Finished(r1, "saved") /\ Finished(r2, "saved")
       /\ PlayerKey(r1) = PlayerKey(r2)
       /\ req[r1].best > 0
       /\ req[r1].best = req[r2].best
       /\ req[r1].score < req[r2].score
       /\ ScoreRows(r1)[1].score = req[r1].score

\* C6: each table holds at most one row per lower-cased name, and the names
\* stored are lower-cased, so that requests whose names differ in case only
\* address the same rows.
UniqueByFoldedName(table) ==
    /\ \A i \in 1..Len(table) : table[i].name = toLowerCase(table[i].name)
    /\ \A i \in 1..Len(table), j \in 1..Len(table) :
          i # j => toLowerCase(table[i].name) # toLowerCase(table[j].name)

C6_UniqueRecords ==
    UniqueByFoldedName(leaderboard) /\ UniqueByFoldedName(player_activity)

\* Two overlapping submissions of one new name, written in different case,
\* both passed the rate limit, both found no leaderboard row and both issued
\* the INSERT: one was saved, the other failed on the unique name.
C6_Witness ==
    \E r1 \in Reqs, r2 \in Reqs :
       /\ Finished(r1, "saved") /\ Finished(r2, "storeFault")
       /\ PlayerKey(r1) = PlayerKey(r2)
       /\ req[r1].name # req[r2].name
       /\ req[r1].best = 0
       /\ Len(ScoreRows(r1)) = 1
       /\ Len(ActivityRows(r1)) = 1
       /\ ActivityRows(r1)[1].submission_count = 2

\* C7: the rank of a name that has no leaderboard row is null, and
\* totalPlayers is the number of rows of the leaderboard.
C7_AbsentRankTotal ==
    (/\ rankResp.name # <<>>
     /\ SelectByName(leaderboard, toLowerCase(rankResp.name)) = <<>>)
    => (rankResp.rank = Null /\ rankResp.totalPlayers = Len(leaderboard))

\* C8: the ranks of the stored players are pairwise distinct and are exactly
\* 1..totalPlayers (equal scores do not share a rank), a strictly higher
\* score has a strictly smaller rank, and totalPlayers is the number of rows.
C8_RowNumberRanks ==
    LET n == Len(leaderboard)
        resp(i) == RankOf(leaderboard[i].name)
    IN  /\ \A i \in 1..n :
               /\ resp(i).rank.ok
               /\ resp(i).totalPlayers = n
        /\ {resp(i).rank.v : i \in 1..n} = 1..n
        /\ \A i \in 1..n, j \in 1..n :
               /\ i # j => resp(i).rank.v # resp(j).rank.v
               /\ leaderboard[i].score > leaderboard[j].score
                  => resp(i).rank.v < resp(j).rank.v

\* The last of the largest store, where scores are tied, has been ranked.
C8_Witness ==
    /\ Len(leaderboard) = MaxPlayers
    /\ \E i \in 1..Len(leaderboard), j \in 1..Len(leaderboard) :
          i # j /\ leaderboard[i].score = leaderboard[j].score
    /\ rankResp.rank = Num(MaxPlayers)
    /\ rankResp.totalPlayers = MaxPlayers

\* C9: the leaderboard response holds min(10, N) rows of the N stored, in
\* descending order of score, and no row left out has a score above that of
\* a row returned.
C9_TopScores ==
    topResp # <<>> =>
       LET data == topResp[1]
           n == Len(leaderboard)
       IN  /\ Len(data) = IF n < TOP_LIMIT THEN n ELSE TOP_LIMIT
           /\ \A k \in 1..Len(data) - 1 : data[k].score >= data[k + 1].score
           /\ \A k \in 1..Len(data) : \E i \in 1..n : leaderboard[i] = data[k]
           /\ \A k \in 1..Len(data), l \in 1..Len(data) :
                 k # l => data[k].name # data[l].name
           /\ \A i \in 1..n :
                 (\A k \in 1..Len(data) : data[k] # leaderboard[i])
                 => \A k \in 1..Len(data) : leaderboard[i].score <= data[k].score

\* More than ten players are stored and exactly ten rows were returned.
C9_Witness ==
    /\ topResp # <<>>
    /\ Len(leaderboard) > TOP_LIMIT
    /\ Len(topResp[1]) = TOP_LIMIT

\* C10: a submission with a valid name is rejected as an invalid score
\* exactly when its score is not in 1..MAX_SCORE, and no score above
\* MAX_SCORE is ever stored.
C10_ScoreBound ==
    /\ \A r \in Reqs :
          (req[r].pc # "idle" /\ isValidName(PlayerName(r)))
          => ((req[r].score <= 0 \/ req[r].score > MAX_SCORE)
                <=> Finished(r, "invalidScore"))
    /\ \A i \in 1..Len(leaderboard) : leaderboard[i].score <= MAX_SCORE

\* C10 in the worker build alone, where MAX_SCORE is enforced.
C10_ScoreBoundWorker ==
    build = "worker" =>
       /\ \A r \in Reqs :
             (req[r].pc # "idle" /\ isValidName(PlayerName(r)))
             => ((req[r].score <= 0 \/ req[r].score > MAX_SCORE)
                   <=> Finished(r, "invalidScore"))
       /\ \A i \in 1..Len(leaderboard) : leaderboard[i].score <= MAX_SCORE

\* The step in which a new request takes handler r.
Arrives(r) == ~InFlight(r) /\ req'[r] # req[r]

\* The step of handler r changes a row of one of the two tables.
Writes(r) ==
    /\ req'[r] # req[r]
    /\ leaderboard' # leaderboard \/ player_activity' # player_activity

\* C11: the gates are evaluated in the order name, score, rate limit,
\* progression and the first failing one decides.  A request whose trimmed
\* name is malformed ends as an invalid name whatever its score; one with a
\* well-formed name and a score that isValidScore refuses ends as an invalid
\* score; neither ever writes to the store.  A request that is inside the
\* cooldown and does not beat the stored score ends with the cooldown
\* reason, and the progression gate is reached only by requests that passed
\* the three gates before it.
GateOrder(r) ==
    /\ (Arrives(r) /\ ~isValidName(trim(req'[r].name)))
       => (req'[r].pc = "done" /\ req'[r].result = "invalidName")
    /\ (/\ Arrives(r)
        /\ isValidName(trim(req'[r].name))
        /\ ~isValidScore(req'[r].score))
       => (req'[r].pc = "done" /\ req'[r].result = "invalidScore")
    /\ (Writes(r) \/ req'[r].result = "progression")
       => (/\ isValidName(PlayerName(r))
           /\ isValidScore(req[r].score)
           /\ req'[r].wrote)
    /\ (/\ Leaves(r, "rl_select")
        /\ ActivityRows(r) # <<>>
        /\ req[r].now - ActivityRows(r)[1].last_submission < COOLDOWN_MS
        /\ ScoreRows(r) # <<>>
        /\ req[r].score <= ScoreRows(r)[1].score)
       => (req'[r].pc = "done" /\ req'[r].result = "cooldown")

C11_GateOrder == [][\A r \in Reqs : GateOrder(r)]_vars

\* C11 in the worker build alone.
C11_GateOrderWorker == [][build = "worker" => \A r \in Reqs : GateOrder(r)]_vars

\* The reasons with which the handler rejects a submission.
Rejections == {"invalidName", "invalidScore", "cooldown", "quota", "progression"}

\* The step in which handler r answers.
Answers(r) == req[r].pc # "done" /\ req'[r].pc = "done"

\* C12 as claimed: a submission that was rejected, whatever the reason, has
\* changed no row of the store.
C12_RejectionWritesNothing ==
    \A r \in Reqs :
       (req[r].pc = "done" /\ req[r].result \in Rejections) => ~req[r].wrote

\* C12, amended: a submission rejected for its name, its score, the cooldown
\* or the quota has changed no row of the store.  One rejected for not
\* beating the stored score has changed its player's activity row (the
\* rate limit was passed first) and no leaderboard row; the step that
\* rejects changes nothing.  Rows change only in steps of a handler, which
\* the handler's wrote records, and the UPDATE of checkRateLimit always
\* changes the activity row.
C12_RejectionFrame ==
    /\ [](\A r \in Reqs :
             /\ (req[r].pc = "done" /\ req[r].result \in Rejections \ {"progression"})
                => ~req[r].wrote
             /\ (req[r].pc = "done" /\ req[r].result = "progression")
                => req[r].wrote)
    /\ [][/\ (leaderboard' # leaderboard \/ player_activity' # player_activity)
             => \E r \in Reqs : Writes(r) /\ req'[r].wrote
          /\ \A r \in Reqs :
                /\ (Answers(r) /\ req'[r].result \in Rejections)
                   => (leaderboard' = leaderboard /\ player_activity' = player_activity)
                /\ (~req[r].wrote /\ req'[r].wrote)
                   => (player_activity' # player_activity /\ leaderboard' = leaderboard)
                /\ Leaves(r, "rl_update") => player_activity' # player_activity]_vars

\* A player's second submission passed the rate limit, which counted it, and
\* was rejected for not beating the stored score, which is still the first
\* submission's.
C12_Witness ==
    \E r \in Reqs :
       /\ Finished(r, "progression")
       /\ req[r].wrote
       /\ ActivityRows(r)[1].submission_count = 2
       /\ ActivityRows(r)[1].last_submission > ActivityRows(r)[1].first_seen
       /\ ScoreRows(r)[1].score = req[r].best
       /\ ScoreRows(r)[1].timestamp = ActivityRows(r)[1].first_seen

\* The step in which handler r, having passed the four gates and chosen
\* between UPDATE and INSERT, issues its statement.
WritesScore(r) == req[r].pc \in {"lb_update", "lb_insert"} /\ Answers(r)

\* After the step the player of r has one leaderboard row, holding r's score
\* and timestamp, and the table has grown by one row exactly if the player
\* had none before.
SuccessPost(r) ==
    LET before == ScoreRows(r)
        after == SelectByName(leaderboard', PlayerKey(r))
    IN  /\ Len(after) = 1
        /\ after[1].score = req[r].score
        /\ after[1].timestamp = req[r].ts
        /\ Len(leaderboard') = Len(leaderboard) + (IF before = <<>> THEN 1 ELSE 0)

\* C13 as claimed: a submission that passed the four gates leaves its
\* player's leaderboard row with exactly its score, inserted if there was
\* none and overwritten in place if there was one.
C13_SuccessPostcondition ==
    [][\A r \in Reqs : WritesScore(r) => SuccessPost(r)]_vars

\* C13, amended: the same, unless the handler found no row, chose INSERT and
\* an overlapping request of the same player inserted the row first; the
\* INSERT then fails on the unique name, the handler ends with a store fault
\* and the leaderboard is left as the other request wrote it.
C13_SuccessUnlessRefused ==
    [][\A r \in Reqs :
          WritesScore(r) =>
             IF req[r].pc = "lb_insert" /\ ScoreRows(r) # <<>>
             THEN /\ req'[r].result = "storeFault"
                  /\ leaderboard' = leaderboard
             ELSE /\ req'[r].result = "saved"
                  /\ SuccessPost(r)]_vars

\* A new player's first score was inserted and, a cooldown later, a higher
\* one was accepted: the table holds the single row of the player, with the
\* higher score.
C13_Witness ==
    \E r \in Reqs :
       /\ Finished(r, "saved")
       /\ PlayerKey(r) = <<"b", "o", "b">>
       /\ req[r].best = 2
       /\ req[r].score = MAX_SCORE
       /\ leaderboard = <<[name |-> PlayerKey(r), score |-> MAX_SCORE,
                            timestamp |-> StartTime + COOLDOWN_MS]>>

\* After the step the player of r has one activity row, created by r: first
\* seen and last submitted at the instant of r's check, counted once, with
\* the session id r supplied, or a generated one if it supplied none.
FirstContactPost(r) ==
    LET after == SelectByName(player_activity', PlayerKey(r))
    IN  /\ Len(after) = 1
        /\ after[1].first_seen = req[r].now
        /\ after[1].last_submission = req[r].now
        /\ after[1].submission_count = 1
        /\ IF req[r].sid # "" THEN after[1].session_id = req[r].sid
                              ELSE after[1].session_id \in GeneratedIds
        /\ Len(player_activity') = Len(player_activity) + 1

\* C14 as claimed: a rate-limit check that finds no activity row for its
\* player is never denied: it goes on to its INSERT, creates the row and
\* returns Allowed.
C14_FirstContact ==
    [][\A r \in Reqs :
          /\ (Leaves(r, "rl_select") /\ ActivityRows(r) = <<>>)
             => req'[r].pc = "rl_insert"
          /\ Leaves(r, "rl_insert")
             => (req'[r].pc = "vp_select" /\ FirstContactPost(r))]_vars

\* C14, amended: the same, unless an overlapping request of the same player
\* has created the row since the check read the table; the INSERT then fails
\* on the unique name, the check ends with a store fault, neither Allowed
\* nor Denied, and the row stays as the other request created it.
C14_FirstContactUnlessRefused ==
    [][\A r \in Reqs :
          /\ (Leaves(r, "rl_select") /\ ActivityRows(r) = <<>>)
             => req'[r].pc = "rl_insert"
          /\ Leaves(r, "rl_insert")
             => IF ActivityRows(r) # <<>>
                THEN /\ req'[r].pc = "done"
                     /\ req'[r].result = "storeFault"
                     /\ player_activity' = player_activity
                ELSE /\ req'[r].pc = "vp_select"
                     /\ FirstContactPost(r)]_vars

\* A new player's first check, made with a session id, has returned Allowed
\* and the row it created is the only one.
C14_Witness ==
    \E r \in Reqs :
       /\ req[r].pc = "vp_select"
       /\ player_activity =
             <<[name |-> <<"b", "o", "b">>, last_submission |-> StartTime,
                submission_count |-> 1, first_seen |-> StartTime,
                session_id |-> "s1"]>>
       /\ ActivityRows(r) = player_activity

\* The rows of a table that belong to the player key.
OwnRows(table, key) == SelectSeq(table, LAMBDA row : row.name = key)

\* From table to tableNext no row of another player than key has changed,
\* moved or gone, and no row of another player has been added.
OthersUnchanged(table, tableNext, key) ==
    /\ Len(tableNext) >= Len(table)
    /\ \A i \in 1..Len(table) :
          table[i].name # key => tableNext[i] = table[i]
    /\ \A i \in 1..Len(tableNext) :
          i > Len(table) => tableNext[i].name = key

\* C15: a step of a handler leaves the rows of every other player as they
\* are, in both tables, and what the handler does next is decided by the
\* rows of its own player alone: the branch of the rate limit by the
\* player's activity row, the progression verdict and the choice between
\* UPDATE and INSERT by the player's leaderboard row, the fate of an INSERT
\* by whether the player has a row.  A step of no handler changes no row.
C15_Independence ==
    [][/\ (\A r \in Reqs : req'[r] = req[r])
          => (leaderboard' = leaderboard /\ player_activity' = player_activity)
       /\ \A r \in Reqs :
             req'[r] # req[r] =>
                LET key == toLowerCase(trim(req'[r].name))
                    activity == OwnRows(player_activity, key)
                    scores == OwnRows(leaderboard, key)
                    branch == RateLimitBranch(activity, req[r].now)
                IN  /\ OthersUnchanged(leaderboard, leaderboard', key)
                    /\ OthersUnchanged(player_activity, player_activity', key)
                    /\ Leaves(r, "rl_select")
                       => (req'[r].pc = branch \/ req'[r].result = branch)
                    /\ Leaves(r, "rl_insert")
                       => (req'[r].result = "storeFault" <=> activity # <<>>)
                    /\ Leaves(r, "vp_select")
                       => (req'[r].result = "progression"
                             <=> (scores # <<>> /\ req[r].score <= scores[1].score))
                    /\ Leaves(r, "lb_select")
                       => (req'[r].pc = "lb_update" <=> scores # <<>>)
                    /\ Leaves(r, "lb_insert")
                       => (req'[r].result = "storeFault" <=> scores # <<>>)]_vars

\* Two overlapping submissions, one of the veteran and one of a new player,
\* have both been saved: each player's rows are as that player's own
\* submission left them.
C15_Witness ==
    \E r1 \in Reqs, r2 \in Reqs :
       /\ Finished(r1, "saved") /\ Finished(r2, "saved")
       /\ PlayerKey(r1) = abc
       /\ PlayerKey(r2) = <<"b", "o", "b">>
       /\ Len(leaderboard) = 2
       /\ leaderboard[1].name = abc /\ leaderboard[1].score = req[r1].score
       /\ leaderboard[2].name = PlayerKey(r2) /\ leaderboard[2].score = req[r2].score
       /\ req[r1].score # req[r2].score
       /\ Len(player_activity) = 2
       /\ player_activity[1].submission_count = DAILY_LIMIT
       /\ player_activity[2].submission_count = 1

\* C16: whenever a rate-limit check of a player who has an activity row
\* returns Allowed, its instant is at least 30000 ms after last_submission,
\* the instant of the player's latest Allowed check so far.
C16_CooldownUnderOverlap ==
    [][\A r \in Reqs :
          Leaves(r, "rl_update")
          => req[r].now - ActivityRows(r)[1].last_submission >= COOLDOWN_MS]_vars

\* C16 when submissions of one player never overlap, in the worker build.
C16_CooldownNoOverlapWorker ==
    [][build = "worker" =>
          \A r \in Reqs :
             Leaves(r, "rl_update")
             => req[r].now - ActivityRows(r)[1].last_submission >= COOLDOWN_MS]_vars

\* C17: the step in which a rate-limit check is denied, for the cooldown or
\* the quota, changes no row, so last_submission stays the instant of the
\* last Allowed check; and a check made 30000 ms or more after
\* last_submission is not denied for the cooldown, however many checks were
\* denied in between: it is allowed unless the quota denies it.
C17_DeniedLeavesActivity ==
    [][\A r \in Reqs :
          /\ (Answers(r) /\ req'[r].result \in {"cooldown", "quota"})
             => (/\ Leaves(r, "rl_select")
                 /\ player_activity' = player_activity
                 /\ leaderboard' = leaderboard)
          /\ (/\ Leaves(r, "rl_select")
              /\ ActivityRows(r) # <<>>
              /\ req[r].now - ActivityRows(r)[1].last_submission >= COOLDOWN_MS)
             => (/\ req'[r].result # "cooldown"
                 /\ (\/ req'[r].pc = "rl_update"
                     \/ /\ req'[r].result = "quota"
                        /\ ActivityRows(r)[1].submission_count >= DAILY_LIMIT
                        /\ req[r].now - ActivityRows(r)[1].first_seen < DAY_MS))]_vars

\* A player whose last Allowed check was 1 ms before the start was denied at
\* the start, and the check made 29999 ms after the denied one, 30000 ms
\* after the last Allowed one, has been allowed and counted.
C17_Witness ==
    \E r1 \in Reqs, r2 \in Reqs :
       /\ Finished(r1, "cooldown")
       /\ ~req[r1].wrote
       /\ PlayerKey(r1) = PlayerKey(r2)
       /\ req[r2].pc = "vp_select"
       /\ ActivityRows(r2)[1].last_submission = RecentActivity.last_submission + COOLDOWN_MS
       /\ ActivityRows(r2)[1].submission_count = RecentActivity.submission_count + 1

\* What C18 says of handler r: the UPDATE of its rate-limit check sets
\* last_submission to the instant of the check and adds one to
\* submission_count, before the stored score is read; a rejection for not
\* beating the stored score comes after that write and changes no row; and
\* the write counts: while the player's last Allowed check stored no score
\* (last_submission is later than the leaderboard row's timestamp), a check
\* less than 30000 ms after it is denied for the cooldown.
ConsumedBeforeProgression(r) ==
    /\ Leaves(r, "rl_update")
       => LET after == SelectByName(player_activity', PlayerKey(r))
          IN  /\ Len(after) = 1
              /\ after[1].last_submission = req[r].now
              /\ after[1].submission_count = ActivityRows(r)[1].submission_count + 1
              /\ leaderboard' = leaderboard
              /\ req'[r].pc = "vp_select"
    /\ (Answers(r) /\ req'[r].result = "progression")
       => (/\ req[r].wrote
           /\ ActivityRows(r) # <<>>
           /\ player_activity' = player_activity
           /\ leaderboard' = leaderboard)
    /\ (/\ Leaves(r, "rl_select")
        /\ ActivityRows(r) # <<>>
        /\ ScoreRows(r) # <<>>
        /\ ActivityRows(r)[1].last_submission > ScoreRows(r)[1].timestamp
        /\ req[r].now - ActivityRows(r)[1].last_submission < COOLDOWN_MS)
       => (req'[r].pc = "done" /\ req'[r].result = "cooldown")

\* C18: a submission that passes the rate limit and is then rejected for
\* not beating the stored score has set last_submission to its instant and
\* counted itself, so that it starts a new cooldown, and has left the
\* leaderboard as it was.
C18_ConsumedBeforeProgression ==
    [][\A r \in Reqs : ConsumedBeforeProgression(r)]_vars

\* C18 in the worker build alone.
C18_ConsumedBeforeProgressionWorker ==
    [][build = "worker" => \A r \in Reqs : ConsumedBeforeProgression(r)]_vars

\* The handlers whose rate-limit check of the player key returns Allowed in
\* this step, the player having a row already.
AllowedNow(key) == {r \in Reqs : Leaves(r, "rl_update") /\ PlayerKey(r) = key}

\* C19: every activity row counts at least one check and was last used no
\* earlier than first seen.  In every step each row keeps its place, name
\* and first_seen, and its submission_count grows by exactly the number of
\* rate-limit checks of its player that return Allowed in the step (so it
\* never decreases and is never reset); a check that returns Allowed always
\* has a row to count in; and a row is added only by the first contact of
\* its player, with a count of 1.
C19_CountsAllowed ==
    /\ [](\A i \in 1..Len(player_activity) :
             /\ player_activity[i].submission_count >= 1
             /\ player_activity[i].last_submission >= player_activity[i].first_seen)
    /\ [][/\ Len(player_activity') \in {Len(player_activity), Len(player_activity) + 1}
          /\ \A i \in 1..Len(player_activity) :
                /\ player_activity'[i].name = player_activity[i].name
                /\ player_activity'[i].first_seen = player_activity[i].first_seen
                /\ player_activity'[i].submission_count =
                      player_activity[i].submission_count
                         + Cardinality(AllowedNow(player_activity[i].name))
          /\ \A r \in Reqs : Leaves(r, "rl_update") => ActivityRows(r) # <<>>
          /\ Len(player_activity') = Len(player_activity) + 1
             => LET new == player_activity'[Len(player_activity')]
                IN  /\ new.submission_count = 1
                    /\ \E r \in Reqs :
                          /\ Leaves(r, "rl_insert")
                          /\ req'[r].pc = "vp_select"
                          /\ new.name = PlayerKey(r)
                          /\ ActivityRows(r) = <<>>]_vars

\* Two overlapping checks of the veteran both read the count 49 and both
\* returned Allowed: the row counts 51, first seen at 0 as before.
C19_Witness ==
    \E r1 \in Reqs, r2 \in Reqs :
       /\ r1 # r2
       /\ req[r1].wrote /\ req[r2].wrote
       /\ PlayerKey(r1) = abc /\ PlayerKey(r2) = abc
       /\ ActivityRows(r1)[1].submission_count = VeteranActivity.submission_count + 2
       /\ ActivityRows(r1)[1].first_seen = VeteranActivity.first_seen

\* C20: every name that has a leaderboard row has an activity row, and the
\* leaderboard has no more rows than player_activity.
C20_ScoreImpliesActivity ==
    /\ \A i \in 1..Len(leaderboard) :
          \E j \in 1..Len(player_activity) :
             player_activity[j].name = leaderboard[i].name
    /\ Len(leaderboard) <= Len(player_activity)

\* One new player's score has been saved, after the rate limit created the
\* player's activity row, while another new player has passed the rate limit
\* and has an activity row but no leaderboard row yet.
C20_Witness ==
    \E r1 \in Reqs, r2 \in Reqs :
       /\ Finished(r1, "saved")
       /\ req[r1].best = 0
       /\ ScoreRows(r1) # <<>> /\ ActivityRows(r1) # <<>>
       /\ ActivityRows(r1)[1].first_seen = StartTime
       /\ req[r2].pc = "vp_select"
       /\ ActivityRows(r2) # <<>> /\ ScoreRows(r2) = <<>>
       /\ Len(leaderboard) = 1
       /\ Len(player_activity) = 2

=============================================================================
